---- MODULE Spec2Model ----
(***************************************************************************)
(* Model of lib/ansible/modules/monitoring/logstash_plugin.py: one module  *)
(* run probes the external logstash-plugin tool with `list`, compares the  *)
(* answer with the requested state and issues at most one `install` or     *)
(* `remove`.  Command lines are sequences of shell words; command output   *)
(* is a sequence of characters.                                            *)
(***************************************************************************)
EXTENDS Integers, Sequences, FiniteSets, TLC

VARIABLES
    params,     \* module.params plus module.check_mode of the current run
    registry,   \* the tool's installed-plugin registry (set of plugin names)
    pc,         \* position of the run inside main()
    listRc,     \* is_plugin_present: rc of the list command
    present,    \* main: present = is_plugin_present(...)
    rc,         \* rc of the last run_command / check-mode synthesis
    out,        \* stdout of the same
    err,        \* stderr of the same
    cmd,        \* cmd built by install_plugin / remove_plugin
    result,     \* the JSON handed to exit_json / fail_json
    log,        \* command lines handed to module.run_command in this run
    running,    \* number of external processes currently running
    action,     \* which branch of main ran: "NoOp", "install", "remove"
    toolError,  \* the list probe failed for a reason other than absence
    regAtStart, \* registry when the current run started
    prev,       \* summary of the previous run of the module
    string,     \* parse_error: its argument
    reason      \* parse_error: its return value

vars == <<params, registry, pc, listRc, present, rc, out, err, cmd, result,
          log, running, action, toolError, regAtStart, prev, string, reason>>

parseVars == <<string, reason>>

----------------------------------------------------------------------------
(* Values *)

\* Python None (the default of the optional parameters)
None == "None"

\* Python truthiness of an optional string parameter
Truthy(x) == x # None /\ x # ""

Names == {"logstash-input-beats", "logstash-filter-multiline"}

States == {"present", "absent"}

PluginBins == {"/usr/share/logstash/bin/logstash-plugin"}

ProxyHosts == {None, "", "proxy.example"}

ProxyPorts == {None, "", "3128"}

Versions == {None, "3.2.0"}

Sources == {None, "/path/to/plugin.gem"}

Params ==
    [name : Names, state : States, plugin_bin : PluginBins,
     proxy_host : ProxyHosts, proxy_port : ProxyPorts,
     version : Versions, source : Sources, check_mode : BOOLEAN]

PACKAGE_STATE_MAP == [present |-> "install", absent |-> "remove"]

\* "check mode"
CheckModeOut == <<"c", "h", "e", "c", "k", " ", "m", "o", "d", "e">>

\* "reason: "
ReasonMarker == <<"r", "e", "a", "s", "o", "n", ":", " ">>

\* characters str.strip() removes
Whitespace == {" ", "\n", "\t"}

----------------------------------------------------------------------------
(* parse_error *)

MarkerAt(s, i) ==
    /\ i >= 1
    /\ i + Len(ReasonMarker) - 1 <= Len(s)
    /\ SubSeq(s, i, i + Len(ReasonMarker) - 1) = ReasonMarker

\* str.index: position of the last occurrence (rindex), 0 for ValueError
str_rindex(s) ==
    IF \E i \in 1..Len(s) : MarkerAt(s, i)
    THEN CHOOSE i \in 1..Len(s) :
            MarkerAt(s, i) /\ \A j \in (i+1)..Len(s) : ~MarkerAt(s, j)
    ELSE 0

\* str.index: position of the first occurrence, 0 for ValueError
str_index(s) ==
    IF \E i \in 1..Len(s) : MarkerAt(s, i)
    THEN CHOOSE i \in 1..Len(s) :
            MarkerAt(s, i) /\ \A j \in 1..(i-1) : ~MarkerAt(s, j)
    ELSE 0

RECURSIVE lstrip(_)
lstrip(s) ==
    IF s # <<>> /\ Head(s) \in Whitespace THEN lstrip(Tail(s)) ELSE s

RECURSIVE rstrip(_)
rstrip(s) ==
    IF s # <<>> /\ s[Len(s)] \in Whitespace
    THEN rstrip(SubSeq(s, 1, Len(s) - 1))
    ELSE s

str_strip(s) == rstrip(lstrip(s))

parse_error(s) ==
    LET i == str_index(s) IN
    IF i = 0
    THEN s
    ELSE str_strip(SubSeq(s, i + Len(ReasonMarker), Len(s)))

----------------------------------------------------------------------------
(* Command construction *)

list_cmd_install(p) == <<p.plugin_bin, "install", p.name>>

\* is_plugin_present: cmd_args = [plugin_bin, "list", plugin_name]
list_cmd(p) == <<p.plugin_bin, "list", p.name>>

proxy_wanted_either(host, port) == Truthy(host) \/ Truthy(port)

\* install_plugin: if proxy_host and proxy_port
proxy_wanted(host, port) == Truthy(host) /\ Truthy(port)

ProxyWords(host, port) ==
    <<"-DproxyHost=" \o host, "-DproxyPort=" \o port>>

\* install_plugin: the words of " ".join(cmd_args)
install_cmd(p) ==
    LET source == IF Truthy(p.source) THEN p.source ELSE p.name
        base == <<p.plugin_bin, PACKAGE_STATE_MAP["present"], source>>
        ver == IF Truthy(p.version) THEN <<"--version", p.version>> ELSE <<>>
        proxy == IF proxy_wanted(p.proxy_host, p.proxy_port)
                 THEN ProxyWords(p.proxy_host, p.proxy_port)
                 ELSE <<>>
    IN base \o ver \o proxy

\* remove_plugin: the words of " ".join(cmd_args)
remove_cmd(p) == <<p.plugin_bin, PACKAGE_STATE_MAP["absent"], p.name>>

----------------------------------------------------------------------------
(* The external tool, as module.run_command sees it *)

\* stdout the tool may print: "", "E", "E reason: d \n"
CmdOutputs ==
    { <<>>, <<"E">>, <<"E", " ">> \o ReasonMarker \o <<"d", " ", "\n">> }

CmdErrors == { <<>>, <<"w">> }

ExitCodes == 0..2

\* `list <name>`: 0 when installed; 1 when not; 2 when the tool itself failed
list_exit(reg, name, te) ==
    IF te THEN 2 ELSE IF name \in reg THEN 0 ELSE 1

----------------------------------------------------------------------------
(* main *)

is_plugin_present_missing_return(code) == FALSE

is_plugin_present_only_one(code) == code # 1

\* is_plugin_present: return rc == 0
is_plugin_present(code) == code = 0

state_is_correct_present_only(pres, state) ==
    pres /\ state = "present"

\* main: (present and state == "present") or (state == "absent" and not present)
state_is_correct(pres, state) ==
    (pres /\ state = "present") \/ (state = "absent" /\ ~pres)

state_is_correct_unversioned(p, pres) ==
    (pres /\ p.state = "present" /\ ~Truthy(p.version))
        \/ (p.state = "absent" /\ ~pres)

\* main: the skip test applied to the parameters of the run
skip(p, pres) == state_is_correct(pres, p.state)

check_mode_ignored(p) == FALSE

\* install_plugin / remove_plugin: if module.check_mode
check_mode(p) == p.check_mode

command_failed_negative(code) == code < 0

\* install_plugin / remove_plugin: if rc != 0
command_failed(code) == code # 0

fail_json_with_payload(msg, c, o, e) ==
    [msg |-> msg, changed |-> FALSE, cmd |-> c, stdout |-> o, stderr |-> e]

\* module.fail_json(msg=reason)
fail_json(msg, c, o, e) == [msg |-> msg]

\* main: module.exit_json(changed=False, name=name, state=state)
exit_json_skip(p) ==
    [changed |-> FALSE, name |-> p.name, state |-> p.state]

\* main: module.exit_json(changed=changed, cmd=cmd, name=name, state=state,
\*                        stdout=out, stderr=err)
exit_json_done(p, c, o, e) ==
    [changed |-> TRUE, cmd |-> c, name |-> p.name, state |-> p.state,
     stdout |-> o, stderr |-> e]

NoResult == <<>>

Changed(r) == "changed" \in DOMAIN r /\ r.changed

NoPrev == [kind |-> "none", changed |-> FALSE, toolError |-> FALSE]

InitRun ==
    /\ params \in Params
    /\ registry \in SUBSET Names
    /\ regAtStart = registry
    /\ pc = "start"
    /\ listRc = 0
    /\ present = FALSE
    /\ rc = 0
    /\ out = <<>>
    /\ err = <<>>
    /\ cmd = <<>>
    /\ result = NoResult
    /\ log = <<>>
    /\ running = 0
    /\ action = "None"
    /\ toolError = FALSE
    /\ prev = NoPrev

Init ==
    /\ InitRun
    /\ string = <<>>
    /\ reason = <<>>

\* main, up to the run_command of is_plugin_present
Main ==
    /\ pc = "start"
    /\ log' = Append(log, list_cmd(params))
    /\ running' = running + 1
    /\ pc' = "list"
    /\ UNCHANGED <<params, registry, listRc, present, rc, out, err, cmd,
                   result, action, toolError, regAtStart, prev>>
    /\ UNCHANGED parseVars

\* is_plugin_present: run_command returns, main stores present
ListReturns ==
    /\ pc = "list"
    /\ \E te \in BOOLEAN :
          /\ toolError' = te
          /\ listRc' = list_exit(registry, params.name, te)
          /\ present' = is_plugin_present(listRc')
    /\ running' = running - 1
    /\ pc' = "probed"
    /\ UNCHANGED <<params, registry, rc, out, err, cmd, result, log,
                   action, regAtStart, prev>>
    /\ UNCHANGED parseVars

\* main: skip if the state is correct
Skip ==
    /\ pc = "probed"
    /\ skip(params, present)
    /\ action' = "NoOp"
    /\ result' = exit_json_skip(params)
    /\ pc' = "exited"
    /\ UNCHANGED <<params, registry, listRc, present, rc, out, err, cmd, log,
                   running, toolError, regAtStart, prev>>
    /\ UNCHANGED parseVars

\* the tail of install_plugin / remove_plugin and of main: fail_json on a
\* non-zero rc, exit_json otherwise
Report(code, c, o, e) ==
    /\ rc' = code
    /\ out' = o
    /\ err' = e
    /\ IF command_failed(code)
       THEN /\ result' = fail_json(parse_error(o), c, o, e)
            /\ pc' = "failed"
       ELSE /\ result' = exit_json_done(params, c, o, e)
            /\ pc' = "exited"

\* the corrective branch of main up to the run_command (or, in check mode,
\* to the end of the run)
Corrective(sub, c) ==
    /\ pc = "probed"
    /\ ~skip(params, present)
    /\ params.state = sub
    /\ action' = PACKAGE_STATE_MAP[sub]
    /\ cmd' = c
    /\ IF check_mode(params)
       THEN /\ Report(0, c, CheckModeOut, <<>>)
            /\ UNCHANGED <<log, running>>
       ELSE /\ log' = Append(log, c)
            /\ running' = running + 1
            /\ pc' = "run_" \o PACKAGE_STATE_MAP[sub]
            /\ UNCHANGED <<rc, out, err, result>>
    /\ UNCHANGED <<params, registry, listRc, present, toolError,
                   regAtStart, prev>>
    /\ UNCHANGED parseVars

\* main: if state == "present": install_plugin(...)
InstallPlugin == Corrective("present", install_cmd(params))

\* main: elif state == "absent": remove_plugin(...)
RemovePlugin == Corrective("absent", remove_cmd(params))

\* install_plugin: run_command returns
InstallReturns ==
    /\ pc = "run_install"
    /\ running' = running - 1
    /\ \E code \in ExitCodes, o \in CmdOutputs, e \in CmdErrors :
          /\ registry' = IF code = 0 THEN registry \cup {params.name}
                         ELSE registry
          /\ Report(code, cmd, o, e)
    /\ UNCHANGED <<params, listRc, present, cmd, log, action, toolError,
                   regAtStart, prev>>
    /\ UNCHANGED parseVars

\* remove_plugin: run_command returns
RemoveReturns ==
    /\ pc = "run_remove"
    /\ running' = running - 1
    /\ \E code \in ExitCodes, o \in CmdOutputs, e \in CmdErrors :
          /\ registry' = IF code = 0 THEN registry \ {params.name}
                         ELSE registry
          /\ Report(code, cmd, o, e)
    /\ UNCHANGED <<params, listRc, present, cmd, log, action, toolError,
                   regAtStart, prev>>
    /\ UNCHANGED parseVars

\* the module is invoked again with the same parameters
NextRun ==
    /\ pc \in {"exited", "failed"}
    /\ prev' = [kind |-> pc, changed |-> Changed(result),
                toolError |-> toolError]
    /\ regAtStart' = registry
    /\ pc' = "start"
    /\ listRc' = 0
    /\ present' = FALSE
    /\ rc' = 0
    /\ out' = <<>>
    /\ err' = <<>>
    /\ cmd' = <<>>
    /\ result' = NoResult
    /\ log' = <<>>
    /\ action' = "None"
    /\ toolError' = FALSE
    /\ UNCHANGED <<params, registry, running>>
    /\ UNCHANGED parseVars

Next ==
    \/ Main
    \/ ListReturns
    \/ Skip
    \/ InstallPlugin
    \/ RemovePlugin
    \/ InstallReturns
    \/ RemoveReturns
    \/ NextRun

Spec == Init /\ [][Next]_vars

----------------------------------------------------------------------------
(* parse_error on its own *)

MaxPieces == 3

\* "reason:" without the blank
NearMarker == <<"r", "e", "a", "s", "o", "n", ":">>

Pieces == { ReasonMarker, NearMarker, <<" ">>, <<"\n">>, <<"d">> }

RECURSIVE Concat(_)
Concat(ps) == IF ps = <<>> THEN <<>> ELSE Head(ps) \o Concat(Tail(ps))

\* the strings parse_error is applied to
Outputs ==
    { Concat(ps) : ps \in UNION { [1..n -> Pieces] : n \in 0..MaxPieces } }

InitParse ==
    /\ params \in { q \in Params : q.name = "logstash-input-beats"
                      /\ q.state = "present" /\ q.source = None
                      /\ q.version = None /\ q.proxy_host = None
                      /\ q.proxy_port = None /\ ~q.check_mode }
    /\ registry = {}
    /\ regAtStart = {}
    /\ pc = "parse_error"
    /\ listRc = 0
    /\ present = FALSE
    /\ rc = 0
    /\ out = <<>>
    /\ err = <<>>
    /\ cmd = <<>>
    /\ result = NoResult
    /\ log = <<>>
    /\ running = 0
    /\ action = "None"
    /\ toolError = FALSE
    /\ prev = NoPrev
    /\ string \in Outputs
    /\ reason = <<>>

\* parse_error(string)
ParseError ==
    /\ pc = "parse_error"
    /\ reason' = parse_error(string)
    /\ pc' = "returned"
    /\ UNCHANGED <<params, registry, listRc, present, rc, out, err, cmd,
                   result, log, running, action, toolError, regAtStart,
                   prev, string>>

NextParse == ParseError

SpecParse == InitParse /\ [][NextParse]_vars

----------------------------------------------------------------------------
(* Properties *)

Terminal == pc \in {"exited", "failed"}

Decided == pc \in {"run_install", "run_remove", "exited", "failed"}

\* the subcommands of the command lines issued so far in this run
Subcommands == [i \in 1..Len(log) |-> log[i][2]]

CorrectiveIssued ==
    \E i \in 1..Len(log) : log[i][2] \in {"install", "remove"}

Faithful == ~toolError /\ ~prev.toolError

\* C1: once the run has chosen its branch, the branch is NoOp iff
\* (present, "present") or (not present, "absent"), install iff
\* (not present, "present"), remove iff (present, "absent").
C1_Decide ==
    Decided =>
        /\ action \in {"NoOp", "install", "remove"}
        /\ (action = "NoOp") <=>
              ((present /\ params.state = "present")
                  \/ (~present /\ params.state = "absent"))
        /\ (action = "install") <=> (~present /\ params.state = "present")
        /\ (action = "remove") <=> (present /\ params.state = "absent")

C1_Witness ==
    /\ pc = "exited"
    /\ action = "remove"
    /\ present
    /\ params.state = "absent"
    /\ ~params.check_mode

\* C2 as stated: a second run with the same parameters (check mode
\* included), with a list command that reports the registry, never reports
\* changed=true.
C2_Original ==
    (Terminal /\ prev.kind # "none" /\ Faithful) => ~Changed(result)

\* C2: outside check mode, when the first run ended in exit_json and the list
\* command reports the registry in both runs, the second run with the same
\* parameters reports changed=false.
C2_Idempotent ==
    (Terminal /\ prev.kind = "exited" /\ Faithful /\ ~params.check_mode) =>
        /\ pc = "exited"
        /\ "changed" \in DOMAIN result
        /\ ~result.changed

C2_Witness ==
    /\ pc = "exited"
    /\ prev.kind = "exited"
    /\ prev.changed
    /\ Faithful
    /\ ~params.check_mode
    /\ ~Changed(result)

\* C3 as stated: in check mode no install or remove command is issued, the
\* registry is not mutated, and the run always reports changed=true with
\* stdout "check mode".
C3_Original ==
    (params.check_mode /\ Terminal) =>
        /\ ~CorrectiveIssued
        /\ registry = regAtStart
        /\ Changed(result)
        /\ "stdout" \in DOMAIN result
        /\ result.stdout = CheckModeOut

\* C3: in check mode no install or remove command is issued and the registry
\* is not mutated; the run reports changed=true, with stdout "check mode",
\* exactly when the probe disagrees with the requested state, and
\* changed=false without stdout when it agrees.
C3_CheckMode ==
    params.check_mode =>
        /\ ~CorrectiveIssued
        /\ registry = regAtStart
        /\ pc \notin {"run_install", "run_remove", "failed"}
        /\ pc = "exited" =>
              /\ "changed" \in DOMAIN result
              /\ result.changed <=> ~(present <=> params.state = "present")
              /\ result.changed =>
                    ("stdout" \in DOMAIN result
                        /\ result.stdout = CheckModeOut
                        /\ result.stderr = <<>>)
              /\ ~result.changed => "stdout" \notin DOMAIN result

C3_Witness ==
    /\ params.check_mode
    /\ pc = "exited"
    /\ Changed(result)
    /\ result.stdout = CheckModeOut
    /\ action = "install"
    /\ params.name \notin registry

\* C4 as stated: changed=true only if an install or remove command was issued
\* to the tool in this run and, outside check mode, it exited with 0.
C4_Original ==
    (Terminal /\ Changed(result)) =>
        /\ CorrectiveIssued
        /\ ~params.check_mode => rc = 0

\* C4: changed=true only if the run took the install or remove branch and
\* either it is a check-mode run (no command issued) or the command was
\* issued and exited with 0.
C4_Changed ==
    (Terminal /\ Changed(result)) =>
        /\ action \in {"install", "remove"}
        /\ IF params.check_mode
           THEN Subcommands = <<"list">>
           ELSE Subcommands = <<"list", action>> /\ rc = 0

C4_Witness ==
    /\ pc = "exited"
    /\ Changed(result)
    /\ ~params.check_mode
    /\ rc = 0
    /\ Subcommands = <<"list", "remove">>

\* C5: the list probe is the first command and is issued once; after it has
\* returned at most one install or remove follows; at most one process runs
\* at a time; the result is reported after the last command has returned.
C5_Sequencing ==
    /\ running \in {0, 1}
    /\ pc = "start" => (log = <<>> /\ running = 0)
    /\ pc # "start" =>
          /\ Len(log) \in {1, 2}
          /\ log[1] = <<params.plugin_bin, "list", params.name>>
    /\ \A i \in 2..Len(log) : log[i][2] \in {"install", "remove"}
    /\ pc = "list" => (Len(log) = 1 /\ running = 1)
    /\ pc = "probed" => (Len(log) = 1 /\ running = 0)
    /\ pc \in {"run_install", "run_remove"} =>
          (Len(log) = 2 /\ running = 1 /\ result = NoResult)
    /\ Terminal => running = 0
    /\ running = 1 => result = NoResult

C5_Witness ==
    /\ pc = "exited"
    /\ Subcommands = <<"list", "install">>
    /\ running = 0

\* C6: a non-zero exit of install or remove ends the run in the error state:
\* the result holds the message only, the command was issued once, and no
\* step of the run is enabled afterwards.
C6_Failure ==
    /\ (Terminal /\ action \in {"install", "remove"} /\ rc # 0) =>
          pc = "failed"
    /\ pc = "failed" =>
          /\ rc # 0
          /\ DOMAIN result = {"msg"}
          /\ result.msg = parse_error(out)
          /\ Subcommands = <<"list", action>>
          /\ running = 0
          /\ ~ENABLED (Main \/ ListReturns \/ Skip \/ InstallPlugin
                          \/ RemovePlugin \/ InstallReturns \/ RemoveReturns)

C6_Witness ==
    /\ pc = "failed"
    /\ action = "install"
    /\ rc = 2
    /\ result.msg = <<"d">>

HasProxyWords(c, host, port) ==
    \E i \in 1..(Len(c) - 1) :
        c[i] = "-DproxyHost=" \o host /\ c[i+1] = "-DproxyPort=" \o port

AnyProxyWord(c) ==
    \E i \in 1..Len(c) :
        \/ \E h \in ProxyHosts : c[i] = "-DproxyHost=" \o h
        \/ \E q \in ProxyPorts : c[i] = "-DproxyPort=" \o q

\* C7: the install command line holds -DproxyHost=<host> -DproxyPort=<port>
\* iff proxy_host and proxy_port are both non-empty, holds no proxy flag
\* otherwise, and the remove command line never holds one.
C7_Proxy ==
    /\ action = "install" =>
          LET both == /\ params.proxy_host \notin {None, ""}
                      /\ params.proxy_port \notin {None, ""}
          IN /\ both => HasProxyWords(cmd, params.proxy_host,
                                      params.proxy_port)
             /\ ~both => ~AnyProxyWord(cmd)
             /\ cmd[2] = "install"
    /\ action = "remove" => (cmd[2] = "remove" /\ ~AnyProxyWord(cmd))
    /\ \A i \in 1..Len(log) :
          /\ log[i][2] # "install" => ~AnyProxyWord(log[i])
          /\ log[i][2] = "install" => log[i] = cmd

C7_Witness ==
    /\ action = "install"
    /\ Len(log) = 2
    /\ params.proxy_host = "proxy.example"
    /\ params.proxy_port = "3128"
    /\ cmd[Len(cmd) - 1] = "-DproxyHost=proxy.example"
    /\ cmd[Len(cmd)] = "-DproxyPort=3128"

HasMarker(s) == \E i \in 1..Len(s) : MarkerAt(s, i)

\* r is t without its leading and trailing whitespace
IsTrimOf(r, t) ==
    \E a, b \in 0..Len(t) :
        /\ a + b <= Len(t)
        /\ r = SubSeq(t, a + 1, Len(t) - b)
        /\ \A k \in 1..a : t[k] \in Whitespace
        /\ \A k \in (Len(t) - b + 1)..Len(t) : t[k] \in Whitespace
        /\ r # <<>> => (r[1] \notin Whitespace /\ r[Len(r)] \notin Whitespace)

\* C8: with a marker in the string, parse_error returns what follows the
\* first marker, trimmed on both sides; without one it returns the string
\* itself, untrimmed.
C8_ParseError ==
    pc = "returned" =>
        IF HasMarker(string)
        THEN \E i \in 1..Len(string) :
                /\ MarkerAt(string, i)
                /\ \A j \in 1..(i - 1) : ~MarkerAt(string, j)
                /\ IsTrimOf(reason,
                            SubSeq(string, i + Len(ReasonMarker), Len(string)))
        ELSE reason = string

C8_Witness ==
    /\ pc = "returned"
    /\ \E i, j \in 1..Len(string) :
          i < j /\ MarkerAt(string, i) /\ MarkerAt(string, j)
    /\ Len(reason) > Len(ReasonMarker)

\* C9: with state=present and a probe that reports the plugin installed, the
\* run reports changed=false and issues no install command, whatever the
\* version, source and proxy parameters are.
C9_NoUpgrade ==
    (params.state = "present" /\ present) =>
        /\ ~CorrectiveIssued
        /\ pc \notin {"run_install", "run_remove", "failed"}
        /\ pc = "exited" =>
              /\ action = "NoOp"
              /\ "changed" \in DOMAIN result
              /\ ~result.changed
              /\ registry = regAtStart

C9_Witness ==
    /\ pc = "exited"
    /\ params.state = "present"
    /\ present
    /\ ~params.check_mode
    /\ params.version = "3.2.0"
    /\ params.source = "/path/to/plugin.gem"
    /\ params.proxy_host = "proxy.example"
    /\ params.proxy_port = "3128"
    /\ ~Changed(result)

\* C10: a non-zero exit of the list probe raises no error and counts as
\* "absent": with state=absent the run reports changed=false and issues no
\* remove; with state=present the run goes on to install.
C10_ProbeFailure ==
    (pc \notin {"start", "list"} /\ listRc # 0) =>
        /\ ~present
        /\ pc = "probed" =>
              /\ result = NoResult
              /\ params.state = "present" => ENABLED InstallPlugin
              /\ params.state = "absent" => ENABLED Skip
        /\ (params.state = "absent" /\ pc # "probed") =>
              /\ pc = "exited"
              /\ ~Changed(result)
              /\ Subcommands = <<"list">>
        /\ (params.state = "present" /\ pc # "probed") =>
              /\ action = "install"
              /\ params.check_mode \/ Subcommands = <<"list", "install">>

C10_Witness ==
    /\ pc = "exited"
    /\ toolError
    /\ listRc = 2
    /\ params.name \in registry
    /\ params.state = "absent"
    /\ ~Changed(result)

====
